---- MODULE Spec2Model ----
(***************************************************************************)
(* A model of rusty-snake (src/src/main.rs): the App state (segments,      *)
(* items, canvas bounds), its operations set_heading, generate_item and    *)
(* update, and the control loop of main that feeds them from the merged    *)
(* channel of key and tick events.                                         *)
(*                                                                         *)
(* Coordinates are f64 in the source but only ever hold small integers, so *)
(* they are integers here.  Sequences are 1-based: segments[1] is the tail *)
(* (index 0 of the Vec) and segments[Len(segments)] is the head.           *)
(***************************************************************************)
EXTENDS Integers, Sequences, FiniteSets, TLC

VARIABLES
    segments,         \* App.segments
    items,            \* App.items
    playing,          \* App.playing
    canvas_x_length,  \* App.canvas_x_length
    canvas_y_length,  \* App.canvas_y_length
    need_items_in,    \* main: countdown to the next generate_item
    game_in_progress, \* main
    selected_option,  \* main: the highlighted menu entry
    queue,            \* the mpsc channel (tx -> rx)
    input_alive,      \* the input producer thread has not returned
    status,           \* the control loop: "running", "quit" or "panicked"
    term,             \* the terminal's size, read by every draw
    updates,          \* history: number of update() calls so far
    spawns,           \* history: number of generate_item() calls so far
    since,            \* history: ticks and events since the last generate_item
    straight,         \* history: nothing but update() calls that hit nothing so far
    last,             \* history: what the last step did
    motion,           \* history: how the head moved in the latest update()
    probe             \* a coordinate put through the two wrap macros

vars == <<segments, items, playing, canvas_x_length, canvas_y_length,
          need_items_in, game_in_progress, selected_option, queue,
          input_alive, status, term, updates, spawns, since, straight,
          last, motion, probe>>

----------------------------------------------------------------------------
(* Bounds of the model *)

MaxUpdates == 3      \* update() calls in one behaviour
MaxSpawns == 1       \* generate_item() calls in one behaviour of SpecApp
MaxChain == 3        \* items placed by one generate_item() call
RandSpan == 3        \* how many of the highest x values the rng draws from
LoopRandSpan == 1    \* the same, in Spec
MaxTermWidth == 16   \* widest terminal
TermHeight == 3      \* the terminal's height
MaxQueue == 2        \* events waiting in the channel
MaxLoopSpawns == 2   \* generate_item() calls in one behaviour of Spec
MaxLoopTicks == 1    \* update() calls in one behaviour of Spec
MaxLoopChain == 1    \* items placed by one generate_item() call in Spec
MaxBound == 6        \* largest bound the wrap macros are probed with
MaxWrapSteps == 2    \* macro applications to one probed coordinate

(* Program constants *)

InitialLength == 13  \* segments built by App::new
SpawnPeriod == 15    \* need_items_in after a generate_item
NewCanvasLength == 10  \* canvas_x_length and canvas_y_length built by App::new
MenuEntries == 5     \* menu_items without "Resume Game"

----------------------------------------------------------------------------
(* Types *)

Directions == {"Up", "Right", "Down", "Left"}
ItemTypes == {"Apple", "Mushroom", "Hedgehog", "Boulder"}

Segment(x, y, direction) == [x |-> x, y |-> y, direction |-> direction]
Item(item_type, x, y) == [item_type |-> item_type, x |-> x, y |-> y]

Cell(r) == <<r.x, r.y>>

----------------------------------------------------------------------------
(* Grid geometry: the two macros *)

(* The increment wrapping one cell early, to 0. *)
increment_coordinate_modulo(value, overflow_after) ==
    IF value >= overflow_after - 1
        THEN 0
        ELSE value + 1

increment_coordinate(value, overflow_after) ==
    IF value >= overflow_after
        THEN overflow_after - value - 1
        ELSE value + 1

(* The decrement with < for <=: 0 steps down to -1. *)
decrement_coordinate_below(value, overflow_to) ==
    IF value < 0
        THEN overflow_to + value
        ELSE value - 1

decrement_coordinate(value, overflow_to) ==
    IF value <= 0
        THEN overflow_to + value
        ELSE value - 1

(* One step of the cell <<x, y>> along direction d (the match of the move
   loop, also used for the tongue and the boulder deflection). *)
StepForward(x, y, d, cx, cy) ==
    CASE d = "Up"    -> <<x, increment_coordinate(y, cy)>>
      [] d = "Right" -> <<increment_coordinate(x, cx), y>>
      [] d = "Down"  -> <<x, decrement_coordinate(y, cy)>>
      [] d = "Left"  -> <<decrement_coordinate(x, cx), y>>

(* One step of the cell <<x, y>> against direction d (the match of the
   growth branch and of "bring the head back one space"). *)
StepBack(x, y, d, cx, cy) ==
    CASE d = "Up"    -> <<x, decrement_coordinate(y, cy)>>
      [] d = "Right" -> <<decrement_coordinate(x, cx), y>>
      [] d = "Down"  -> <<x, increment_coordinate(y, cy)>>
      [] d = "Left"  -> <<increment_coordinate(x, cx), y>>

----------------------------------------------------------------------------
(* App::new *)

DefaultSegment == Segment(1, 0, "Right")

NewSegments == [i \in 1..InitialLength |-> [DefaultSegment EXCEPT !.x = i]]

----------------------------------------------------------------------------
(* App::update *)

(* The move loop taking the next segment's direction before the move: the
   segment already steps along the direction it should only have next
   tick. *)
RECURSIVE MoveLoopTurnFirst(_, _, _, _)
MoveLoopTurnFirst(segs, i, cx, cy) ==
    IF i > Len(segs) THEN segs
    ELSE LET d == IF i < Len(segs) THEN segs[i + 1].direction
                                   ELSE segs[i].direction
             c == StepForward(segs[i].x, segs[i].y, d, cx, cy)
         IN MoveLoopTurnFirst([segs EXCEPT ![i] = Segment(c[1], c[2], d)],
                              i + 1, cx, cy)

(* The move loop, one pass over the indices in order: segment i moves along
   its own direction and then takes the direction of segment i+1, which the
   pass has not touched yet. *)
RECURSIVE MoveLoop(_, _, _, _)
MoveLoop(segs, i, cx, cy) ==
    IF i > Len(segs) THEN segs
    ELSE LET c == StepForward(segs[i].x, segs[i].y, segs[i].direction, cx, cy)
             moved == [segs[i] EXCEPT !.x = c[1], !.y = c[2]]
             turned == IF i < Len(segs) /\ moved.direction # segs[i + 1].direction
                          THEN [moved EXCEPT !.direction = segs[i + 1].direction]
                          ELSE moved
         IN MoveLoop([segs EXCEPT ![i] = turned], i + 1, cx, cy)

(* The item scan keeping the last match for the first. *)
LastItemAt(its, hx, hy) ==
    LET hit == {i \in 1..Len(its) : its[i].x = hx /\ its[i].y = hy}
    IN IF hit = {} THEN 0 ELSE CHOOSE i \in hit : \A j \in hit : i >= j

(* The first index of its whose cell is <<hx, hy>>, 0 if there is none. *)
FirstItemAt(its, hx, hy) ==
    LET hit == {i \in 1..Len(its) : its[i].x = hx /\ its[i].y = hy}
    IN IF hit = {} THEN 0 ELSE CHOOSE i \in hit : \A j \in hit : i <= j

(* Vec::remove(i) *)
RemoveAt(s, i) == SubSeq(s, 1, i - 1) \o SubSeq(s, i + 1, Len(s))

(* The first index below the head whose cell is <<hx, hy>>, 0 if none. *)
FirstSegmentAt(segs, hx, hy) ==
    LET hit == {i \in 1..(Len(segs) - 1) : segs[i].x = hx /\ segs[i].y = hy}
    IN IF hit = {} THEN 0 ELSE CHOOSE i \in hit : \A j \in hit : i <= j

(* The truncation loop with >= for >: one segment too many is removed. *)
RECURSIVE RemoveWhileNotShorter(_, _)
RemoveWhileNotShorter(segs, target) ==
    IF Len(segs) >= target /\ segs # <<>>
        THEN RemoveWhileNotShorter(Tail(segs), target - 1) ELSE segs

(* while self.segments.len() > target { self.segments.remove(0); } *)
RECURSIVE RemoveWhileLonger(_, _)
RemoveWhileLonger(segs, target) ==
    IF Len(segs) > target THEN RemoveWhileLonger(Tail(segs), target) ELSE segs

(* The growth branch without the step back: the new tail is a copy of the
   old one. *)
GrowInPlace(segs, cx, cy) == <<segs[1]>> \o segs

(* The Apple | Mushroom branch. *)
Grow(segs, cx, cy) ==
    LET c == StepBack(segs[1].x, segs[1].y, segs[1].direction, cx, cy)
    IN <<Segment(c[1], c[2], segs[1].direction)>> \o segs

(* The Hedgehog branch without its length guard. *)
ShrinkUnguarded(segs) == Tail(segs)

(* The Hedgehog branch removing the last element (the head) for the first. *)
ShrinkHead(segs) == IF Len(segs) > 1 THEN SubSeq(segs, 1, Len(segs) - 1) ELSE segs

(* The Hedgehog branch. *)
Shrink(segs) == IF Len(segs) > 1 THEN Tail(segs) ELSE segs

(* The two directions a Boulder may deflect a head heading d to. *)
Deflections(d) ==
    IF d = "Up" \/ d = "Down" THEN <<"Right", "Left">> ELSE <<"Up", "Down">>

(* The Boulder branch up to line 247: the head takes the chosen direction
   and moves one step along it. *)
DeflectHead(segs, pick, cx, cy) ==
    LET h == Len(segs)
        d == Deflections(segs[h].direction)[pick]
        c == StepForward(segs[h].x, segs[h].y, d, cx, cy)
    IN [segs EXCEPT ![h] = Segment(c[1], c[2], d)]

(* The head stepping back without the segment before it taking the head's
   direction. *)
BringBackHeadOnly(segs, cx, cy) ==
    LET h == Len(segs)
        c == StepBack(segs[h].x, segs[h].y, segs[h - 1].direction, cx, cy)
    IN [segs EXCEPT ![h].x = c[1], ![h].y = c[2]]

(* Lines 249-255: the head steps back against the direction of the segment
   before it, and that segment takes the head's direction.  Needs a segment
   before the head. *)
BringBack(segs, cx, cy) ==
    LET h == Len(segs)
        c == StepBack(segs[h].x, segs[h].y, segs[h - 1].direction, cx, cy)
    IN [segs EXCEPT ![h].x = c[1], ![h].y = c[2],
                    ![h - 1].direction = segs[h].direction]

(* update(): the outcomes it can have, each the state it leaves, whether it
   panicked, and what it hit at which 0-based index.  Only the Boulder branch
   consults the rng (choose() over two directions).  With one segment the
   Boulder branch evaluates head_index - 1 with head_index = 0: the
   subtraction overflows (debug build) or the index is out of range (release
   build); both panic, after the item was removed and the head moved. *)
update(segs, its, cx, cy) ==
    LET moved == MoveLoop(segs, 1, cx, cy)
        head == moved[Len(moved)]
        i == FirstItemAt(its, head.x, head.y)
        k == FirstSegmentAt(moved, head.x, head.y)
        initial_body_length == Len(moved) - 1
    IN IF i # 0 THEN
           LET kind == its[i].item_type
               rest == RemoveAt(its, i)
           IN CASE kind \in {"Apple", "Mushroom"} ->
                     {[segments |-> Grow(moved, cx, cy), items |-> rest,
                       panic |-> FALSE, hit |-> kind, index |-> i - 1]}
                [] kind = "Hedgehog" ->
                     {[segments |-> Shrink(moved), items |-> rest,
                       panic |-> FALSE, hit |-> kind, index |-> i - 1]}
                [] kind = "Boulder" ->
                     {IF Len(moved) - 1 < 1
                      THEN [segments |-> DeflectHead(moved, pick, cx, cy),
                            items |-> rest,
                            panic |-> TRUE, hit |-> kind, index |-> i - 1]
                      ELSE [segments |-> BringBack(DeflectHead(moved, pick, cx, cy), cx, cy),
                            items |-> Append(rest, Item("Boulder", head.x, head.y)),
                            panic |-> FALSE, hit |-> kind, index |-> i - 1]
                        : pick \in 1..2}
       ELSE IF k # 0 THEN
           {[segments |-> RemoveWhileLonger(moved, initial_body_length - (k - 1)),
             items |-> its, panic |-> FALSE, hit |-> "self", index |-> k - 1]}
       ELSE
           {[segments |-> moved, items |-> its, panic |-> FALSE,
             hit |-> "none", index |-> 0]}

----------------------------------------------------------------------------
(* App::set_heading *)

set_heading(segs, direction) ==
    LET head_index == Len(segs)
    IN [segs EXCEPT ![head_index].direction = direction]

----------------------------------------------------------------------------
(* App::generate_item *)

(* random_coordinates!(rng, canvas_x_length - 1.0, canvas_y_length - 1.0):
   gen_range(2, cx - 1) x gen_range(1, cy - 1), of which the model draws the
   span highest x values. *)
random_coordinates(cx, cy, span) ==
    {c \in (2..(cx - 2)) \X (1..(cy - 2)) : c[1] >= cx - 1 - span}

(* One of the two for loops of lines 142-162 over occ from index i with the
   candidate cell c: an occupied candidate is replaced by a new draw and the
   for loop goes on with the next element (the continue is the for loop's). *)
RECURSIVE ScanOccupied(_, _, _, _)
ScanOccupied(occ, i, c, rand) ==
    IF i > Len(occ) THEN {c}
    ELSE IF occ[i].x = c[1] /\ occ[i].y = c[2]
         THEN UNION {ScanOccupied(occ, i + 1, d, rand) : d \in rand}
         ELSE ScanOccupied(occ, i + 1, c, rand)

(* The cells the inner loop (lines 140-165) can break with. *)
FreeCells(segs, its, rand) ==
    UNION {UNION {ScanOccupied(its, 1, c1, rand) :
                      c1 \in ScanOccupied(segs, 1, c0, rand)} : c0 \in rand}

(* The candidate kinds with the two vectors exchanged. *)
CandidatesExchanged(generate_destructive_item) ==
    IF generate_destructive_item THEN {"Apple", "Mushroom"}
                                 ELSE {"Hedgehog", "Boulder"}

Candidates(generate_destructive_item) ==
    IF generate_destructive_item THEN {"Hedgehog", "Boulder"}
                                 ELSE {"Apple", "Mushroom"}

(* The item lists one iteration of the outer loop can leave (line 172). *)
PlaceItem(segs, its, generate_destructive_item, rand) ==
    {Append(its, Item(t, c[1], c[2])) :
        t \in Candidates(generate_destructive_item),
        c \in FreeCells(segs, its, rand)}

(* The item lists the outer loop can leave when it runs at most n times:
   after each push gen_bool(0.2) either ends the call or repeats the loop
   with generate_destructive_item set. *)
RECURSIVE GenerateLoop(_, _, _, _, _)
GenerateLoop(segs, its, generate_destructive_item, n, rand) ==
    UNION {{p} \cup (IF n > 1 THEN GenerateLoop(segs, p, TRUE, n - 1, rand) ELSE {}) :
              p \in PlaceItem(segs, its, generate_destructive_item, rand)}

(* generate_item() with at most n iterations of its outer loop. *)
generate_item(segs, its, cx, cy, n, span) ==
    GenerateLoop(segs, its, FALSE, n, random_coordinates(cx, cy, span))

----------------------------------------------------------------------------
(* main: the events and their dispatch *)

ArrowKeys == {"Up", "Right", "Down", "Left"}
Keys == ArrowKeys \cup {"q", "n", "x"}   \* "x" stands for any other key

Opposite(d) ==
    CASE d = "Up" -> "Down" [] d = "Down" -> "Up"
      [] d = "Left" -> "Right" [] d = "Right" -> "Left"

(* The arrow key arms without their guards. *)
HandleArrowUnguarded(segs, key) == set_heading(segs, key)

(* Lines 393-417 for an arrow key: set_heading unless the head's current
   direction is the one the match arm excludes. *)
HandleArrow(segs, key) ==
    LET current_heading == segs[Len(segs)].direction
        excluded == CASE key = "Up" -> "Down" [] key = "Right" -> "Left"
                      [] key = "Down" -> "Up" [] key = "Left" -> "Right"
    IN IF current_heading # excluded THEN set_heading(segs, key) ELSE segs

(* What a step did: the operation, what update() hit and at which 0-based
   index, the key handled, whether generate_item ran, and the segments and
   items that update() or generate_item was called with. *)
NoEffect == [op |-> "init", hit |-> "none", index |-> 0, key |-> "none",
             generated |-> FALSE,
             pre |-> [segments |-> <<>>, items |-> <<>>]]

(* No update() has run yet. *)
NotMoved == [heading |-> "none", deflected |-> FALSE]

(* No coordinate is being wrapped. *)
NoProbe == [bound |-> 1, start |-> 0, value |-> 0, ops |-> <<>>]

Terminals == {[width |-> w, height |-> TermHeight] :
                 w \in (InitialLength + 2)..MaxTermWidth}

----------------------------------------------------------------------------
(* The App alone, driven the way main drives it once 'n' has started the
   game: the first draw sets the canvas bounds to the terminal's and calls
   generate_item before any event is handled (lines 340-346); afterwards
   update(), the arrow keys and further generate_item calls follow each other
   in any order (fifteen events of any kind lie between two calls). *)

InitApp ==
    /\ segments = NewSegments
    /\ items = <<>>
    /\ playing = TRUE
    /\ term \in Terminals
    /\ canvas_x_length = NewCanvasLength
    /\ canvas_y_length = NewCanvasLength
    /\ need_items_in = 0
    /\ game_in_progress = TRUE
    /\ selected_option = 0
    /\ queue = <<>>
    /\ input_alive = TRUE
    /\ status = "running"
    /\ updates = 0
    /\ spawns = 0
    /\ since = [ticks |-> 0, events |-> 0]
    /\ straight = TRUE
    /\ last = NoEffect
    /\ motion = NotMoved
    /\ probe = NoProbe

AppGenerate ==
    /\ status = "running"
    /\ spawns < MaxSpawns
    /\ canvas_x_length' = term.width
    /\ canvas_y_length' = term.height
    /\ \E its \in generate_item(segments, items, term.width, term.height,
                                   MaxChain, RandSpan) :
          items' = its
    /\ spawns' = spawns + 1
    /\ last' = [NoEffect EXCEPT !.op = "generate", !.generated = TRUE,
                                !.pre = [segments |-> segments, items |-> items]]
    /\ UNCHANGED <<segments, playing, need_items_in, game_in_progress,
                   selected_option, queue, input_alive, status, term, updates,
                   since, straight, motion, probe>>

AppUpdate ==
    /\ status = "running"
    /\ spawns >= 1
    /\ updates < MaxUpdates
    /\ \E r \in update(segments, items, canvas_x_length, canvas_y_length) :
          /\ segments' = r.segments
          /\ items' = r.items
          /\ status' = IF r.panic THEN "panicked" ELSE status
          /\ straight' = (straight /\ r.hit = "none")
          /\ last' = [NoEffect EXCEPT !.op = "update", !.hit = r.hit,
                                      !.index = r.index,
                                      !.pre = [segments |-> segments, items |-> items]]
          /\ motion' = [heading |-> segments[Len(segments)].direction,
                       deflected |-> r.hit = "Boulder"]
    /\ updates' = updates + 1
    /\ UNCHANGED <<playing, canvas_x_length, canvas_y_length, need_items_in,
                   game_in_progress, selected_option, queue, input_alive,
                   term, spawns, since, probe>>

AppKey ==
    /\ status = "running"
    /\ spawns >= 1
    /\ \E key \in ArrowKeys :
          /\ segments' = HandleArrow(segments, key)
          /\ last' = [NoEffect EXCEPT !.op = "key", !.key = key]
    /\ straight' = FALSE
    /\ UNCHANGED <<items, playing, canvas_x_length, canvas_y_length,
                   need_items_in, game_in_progress, selected_option, queue,
                   input_alive, status, term, updates, spawns, since, motion,
                   probe>>

NextApp == AppGenerate \/ AppUpdate \/ AppKey

SpecApp == InitApp /\ [][NextApp]_vars

----------------------------------------------------------------------------
(* main: the two producer threads, the channel and the control loop *)

Init ==
    /\ segments = NewSegments
    /\ items = <<>>
    /\ playing = FALSE
    /\ canvas_x_length = NewCanvasLength
    /\ canvas_y_length = NewCanvasLength
    /\ need_items_in = 0
    /\ game_in_progress = FALSE
    /\ selected_option = 0
    /\ queue = <<>>
    /\ input_alive = TRUE
    /\ status = "running"
    /\ term \in Terminals
    /\ updates = 0
    /\ spawns = 0
    /\ since = [ticks |-> 0, events |-> 0]
    /\ straight = TRUE
    /\ last = NoEffect
    /\ motion = NotMoved
    /\ probe = NoProbe

TicksQueued == Cardinality({i \in 1..Len(queue) : queue[i] = "Tick"})

(* A producer may send: the channel has room (MaxQueue) and the loop can
   handle the event without calling generate_item more than MaxLoopSpawns
   times.  With fewer than SpawnPeriod events in the channel at most one call
   lies ahead of the event sent. *)
CanSend ==
    /\ status = "running"
    /\ Len(queue) < MaxQueue
    /\ spawns < MaxLoopSpawns \/ need_items_in > Len(queue)

(* The input thread going on after a 'q'. *)
InputSendOn ==
    /\ CanSend
    /\ \E key \in Keys : queue' = Append(queue, key)
    /\ UNCHANGED <<segments, items, playing, canvas_x_length, canvas_y_length,
                   need_items_in, game_in_progress, selected_option, status,
                   term, updates, spawns, since, straight, last, motion,
                   probe, input_alive>>

(* The input thread: forwards every key and returns after a 'q'. *)
InputSend ==
    /\ CanSend
    /\ input_alive
    /\ \E key \in Keys :
          /\ queue' = Append(queue, key)
          /\ input_alive' = (key # "q")
    /\ UNCHANGED <<segments, items, playing, canvas_x_length, canvas_y_length,
                   need_items_in, game_in_progress, selected_option, status,
                   term, updates, spawns, since, straight, last, motion, probe>>

(* The timer thread: one Tick every 100 ms. *)
TickSend ==
    /\ CanSend
    /\ updates + TicksQueued < MaxLoopTicks
    /\ queue' = Append(queue, "Tick")
    /\ UNCHANGED <<segments, items, playing, canvas_x_length, canvas_y_length,
                   need_items_in, game_in_progress, selected_option,
                   input_alive, status, term, updates, spawns, since,
                   straight, last, motion, probe>>

(* One iteration of the loop while app.playing: the draw closure (canvas
   bounds, generate_item at countdown zero, the countdown's decrement), then
   rx.recv() and the event's match arm. *)
LoopPlaying ==
    /\ status = "running"
    /\ playing
    /\ queue # <<>>
    /\ LET event == Head(queue)
           generate == (need_items_in = 0)
       IN /\ queue' = Tail(queue)
          /\ canvas_x_length' = term.width
          /\ canvas_y_length' = term.height
          /\ need_items_in' = (IF generate THEN SpawnPeriod ELSE need_items_in) - 1
          /\ spawns' = IF generate THEN spawns + 1 ELSE spawns
          /\ since' = [ticks |-> (IF generate THEN 0 ELSE since.ticks)
                                    + (IF event = "Tick" THEN 1 ELSE 0),
                       events |-> (IF generate THEN 0 ELSE since.events) + 1]
          /\ updates' = IF event = "Tick" THEN updates + 1 ELSE updates
          /\ \E its \in (IF generate
                           THEN generate_item(segments, items, term.width,
                                              term.height, MaxLoopChain,
                                              LoopRandSpan)
                           ELSE {items}) :
               LET effect == [NoEffect EXCEPT !.generated = generate]
               IN CASE event = "q" ->
                         /\ status' = "quit"
                         /\ segments' = segments
                         /\ items' = its
                         /\ straight' = FALSE
                         /\ last' = [effect EXCEPT !.op = "quit"]
                    [] event \in ArrowKeys ->
                         /\ status' = status
                         /\ segments' = HandleArrow(segments, event)
                         /\ items' = its
                         /\ straight' = FALSE
                         /\ last' = [effect EXCEPT !.op = "key"]
                    [] event = "Tick" ->
                         \E r \in update(segments, its, term.width, term.height) :
                            /\ status' = IF r.panic THEN "panicked" ELSE status
                            /\ segments' = r.segments
                            /\ items' = r.items
                            /\ straight' = (straight /\ r.hit = "none")
                            /\ last' = [effect EXCEPT
                                           !.op = "update", !.hit = r.hit,
                                           !.index = r.index,
                                           !.pre = [segments |-> segments,
                                                    items |-> its]]
                    [] OTHER ->
                         /\ status' = status
                         /\ segments' = segments
                         /\ items' = its
                         /\ straight' = FALSE
                         /\ last' = [effect EXCEPT !.op = "key"]
    /\ motion' = IF Head(queue) = "Tick"
                   THEN [heading |-> segments[Len(segments)].direction,
                         deflected |-> last'.hit = "Boulder"]
                   ELSE motion
    /\ UNCHANGED <<playing, game_in_progress, selected_option, input_alive,
                   term, probe>>

(* menu_items.len() after the draw closure of the menu branch. *)
MenuLength == IF game_in_progress THEN MenuEntries + 1 ELSE MenuEntries

(* The menu branch running the countdown of the playing branch's draw. *)
LoopMenuCounting ==
    /\ status = "running"
    /\ ~playing
    /\ queue # <<>>
    /\ queue' = Tail(queue)
    /\ need_items_in' =
          (IF need_items_in = 0 THEN SpawnPeriod ELSE need_items_in) - 1
    /\ status' = IF Head(queue) = "q" THEN "quit" ELSE status
    /\ playing' = IF Head(queue) = "n" THEN TRUE ELSE playing
    /\ last' = [NoEffect EXCEPT !.op = "menu", !.key = Head(queue)]
    /\ UNCHANGED <<segments, items, canvas_x_length, canvas_y_length,
                   game_in_progress, selected_option, input_alive, term,
                   updates, spawns, since, straight, motion, probe>>

(* One iteration of the loop while not app.playing. *)
LoopMenu ==
    /\ status = "running"
    /\ ~playing
    /\ queue # <<>>
    /\ LET event == Head(queue)
       IN /\ queue' = Tail(queue)
          /\ status' = IF event = "q" THEN "quit" ELSE status
          /\ playing' = IF event = "n" THEN TRUE ELSE playing
          /\ game_in_progress' = IF event = "n" THEN TRUE ELSE game_in_progress
          /\ selected_option' =
                CASE event = "Up" ->
                        IF selected_option > 0 THEN selected_option - 1
                                               ELSE MenuLength - 1
                  [] event = "Down" ->
                        IF selected_option >= MenuLength - 1 THEN 0
                                                             ELSE selected_option + 1
                  [] OTHER -> selected_option
          /\ last' = [NoEffect EXCEPT !.op = "menu", !.key = event]
    /\ UNCHANGED <<segments, items, canvas_x_length, canvas_y_length,
                   need_items_in, input_alive, term, updates, spawns, since,
                   straight, motion, probe>>

Next == InputSend \/ TickSend \/ LoopPlaying \/ LoopMenu

Spec == Init /\ [][Next]_vars

(* rx.recv() of either branch: the loop takes the first event out of the
   channel.  Every step of LoopPlaying and of LoopMenu is one, and no other
   step is. *)
Receive == status = "running" /\ queue # <<>> /\ queue' = Tail(queue)

(* The loop does not stop by itself: while an event is in the channel,
   rx.recv() returns and the branch for the current mode handles it. *)
FairSpec == Spec /\ WF_queue(Receive)

----------------------------------------------------------------------------
(* The two wrap macros alone: a coordinate start in [0, bound) of an axis
   with a positive bound is put through increment_coordinate! and
   decrement_coordinate! in every order, MaxWrapSteps times. *)

InitWrap ==
    /\ segments = NewSegments
    /\ items = <<>>
    /\ playing = FALSE
    /\ canvas_x_length = NewCanvasLength
    /\ canvas_y_length = NewCanvasLength
    /\ need_items_in = 0
    /\ game_in_progress = FALSE
    /\ selected_option = 0
    /\ queue = <<>>
    /\ input_alive = TRUE
    /\ status = "running"
    /\ term = [width |-> MaxTermWidth, height |-> TermHeight]
    /\ updates = 0
    /\ spawns = 0
    /\ since = [ticks |-> 0, events |-> 0]
    /\ straight = TRUE
    /\ last = NoEffect
    /\ motion = NotMoved
    /\ \E B \in 1..MaxBound : \E v \in 0..(B - 1) :
          probe = [bound |-> B, start |-> v, value |-> v, ops |-> <<>>]

WrapIncrement ==
    /\ Len(probe.ops) < MaxWrapSteps
    /\ probe' = [probe EXCEPT
                    !.value = increment_coordinate(probe.value, probe.bound),
                    !.ops = Append(probe.ops, "increment")]
    /\ UNCHANGED <<segments, items, playing, canvas_x_length, canvas_y_length,
                   need_items_in, game_in_progress, selected_option, queue,
                   input_alive, status, term, updates, spawns, since,
                   straight, last, motion>>

WrapDecrement ==
    /\ Len(probe.ops) < MaxWrapSteps
    /\ probe' = [probe EXCEPT
                    !.value = decrement_coordinate(probe.value, probe.bound),
                    !.ops = Append(probe.ops, "decrement")]
    /\ UNCHANGED <<segments, items, playing, canvas_x_length, canvas_y_length,
                   need_items_in, game_in_progress, selected_option, queue,
                   input_alive, status, term, updates, spawns, since,
                   straight, last, motion>>

NextWrap == WrapIncrement \/ WrapDecrement

SpecWrap == InitWrap /\ [][NextWrap]_vars

----------------------------------------------------------------------------
(* Properties of update() *)

(* The last step called update(). *)
Updated == last.op = "update"

(* The body the move loop of that update() produced. *)
Moved == MoveLoop(last.pre.segments, 1, canvas_x_length, canvas_y_length)

(* The index (1-based) of the item that update() picked up when its move loop
   left the body m, 0 if no item lay on the head's cell. *)
ItemHit(m) == FirstItemAt(last.pre.items, m[Len(m)].x, m[Len(m)].y)

(* The kind of that item, "none" if there was none. *)
KindHit(m) ==
    IF ItemHit(m) = 0 THEN "none" ELSE last.pre.items[ItemHit(m)].item_type

(* The 0-based indices below the head of m whose cell is the head's. *)
Bitten(m) == {k \in 0..(Len(m) - 2) : Cell(m[k + 1]) = Cell(m[Len(m)])}

Lowest(S) == CHOOSE k \in S : \A j \in S : k <= j

(* C1: self-truncation.  When update() finds no item on the head's post-move
   cell and k is the lowest 0-based index below the head whose post-move cell
   is the head's, the body it leaves has length N - 1 - k and is the last
   N - 1 - k segments of the moved body in their order. *)
C1_SelfTruncation ==
    Updated =>
        LET m == Moved
            N == Len(last.pre.segments)
            bitten == Bitten(m)
        IN (ItemHit(m) = 0 /\ bitten # {}) =>
              LET k == Lowest(bitten)
              IN /\ Len(segments) = N - 1 - k
                 /\ segments = [j \in 1..(N - 1 - k) |-> m[k + 1 + j]]
                 /\ items = last.pre.items

(* A self-collision that is not the double-key reversal has just truncated
   the initial body. *)
C1_Witness ==
    /\ Updated
    /\ last.hit = "self"
    /\ Len(last.pre.segments) = InitialLength
    /\ last.index < InitialLength - 3
    /\ Len(segments) = InitialLength - 1 - last.index

(* C2: update() is total.  No call of update() panics. *)
C2_UpdateTotal == status # "panicked"

(* C3: the body is never empty. *)
C3_BodyNonEmpty == Len(segments) >= 1

(* A Hedgehog pickup has just shrunk the body to its last segment. *)
C3_Witness ==
    /\ Updated
    /\ last.hit = "Hedgehog"
    /\ Len(last.pre.segments) = 2
    /\ Len(segments) = 1

(* C4: growth.  When the item update() picks up is an Apple or a Mushroom,
   the body gets exactly one new segment at index 0, with the direction of
   the moved tail and the cell one step behind the moved tail against that
   direction, and every other segment is as the move loop left it. *)
C4_Growth ==
    Updated =>
        LET m == Moved
            N == Len(last.pre.segments)
            tail == m[1]
            cx == canvas_x_length
            cy == canvas_y_length
        IN KindHit(m) \in {"Apple", "Mushroom"} =>
              /\ Len(segments) = N + 1
              /\ segments[1].direction = tail.direction
              /\ segments[1].x =
                    CASE tail.direction = "Right" -> decrement_coordinate(tail.x, cx)
                      [] tail.direction = "Left" -> increment_coordinate(tail.x, cx)
                      [] OTHER -> tail.x
              /\ segments[1].y =
                    CASE tail.direction = "Up" -> decrement_coordinate(tail.y, cy)
                      [] tail.direction = "Down" -> increment_coordinate(tail.y, cy)
                      [] OTHER -> tail.y
              /\ Tail(segments) = m

(* An Apple or a Mushroom has just grown the body. *)
C4_Witness ==
    /\ Updated
    /\ last.hit \in {"Apple", "Mushroom"}
    /\ Len(segments) = Len(last.pre.segments) + 1

(* C5: shrink.  When the item update() picks up is a Hedgehog, a body longer
   than 1 loses exactly its tail and keeps every other segment, the head
   included, as the move loop left it; a body of length 1 stays as the move
   loop left it; in both cases the Hedgehog leaves the item list. *)
C5_Shrink ==
    Updated =>
        LET m == Moved
            N == Len(last.pre.segments)
            i == ItemHit(m)
            its == last.pre.items
        IN KindHit(m) = "Hedgehog" =>
              /\ N > 1 => /\ Len(segments) = N - 1
                          /\ segments[N - 1] = m[N]
                          /\ segments = [j \in 1..(N - 1) |-> m[j + 1]]
              /\ N = 1 => segments = m
              /\ Len(items) = Len(its) - 1
              /\ items = [j \in 1..(Len(its) - 1) |->
                             its[IF j < i THEN j ELSE j + 1]]

(* A Hedgehog has just been picked up by a body of a single segment. *)
C5_Witness ==
    /\ Updated
    /\ last.hit = "Hedgehog"
    /\ Len(last.pre.segments) = 1
    /\ Len(segments) = 1

(* C6: Boulder persistence.  When the item update() picks up is a Boulder,
   the item list keeps its length: the Boulder leaves its place, every other
   item stays, and a Boulder is pushed at the head's post-move cell. *)
C6_BoulderPersistence ==
    Updated =>
        LET m == Moved
            i == ItemHit(m)
            its == last.pre.items
            head == m[Len(m)]
        IN KindHit(m) = "Boulder" =>
              /\ Len(items) = Len(its)
              /\ items = [j \in 1..Len(its) |->
                             IF j = Len(its) THEN Item("Boulder", head.x, head.y)
                             ELSE its[IF j < i THEN j ELSE j + 1]]

----------------------------------------------------------------------------
(* Properties of the input handling *)

(* C7: no reversal per input event.  An arrow key asking for the direction
   opposite to the head's leaves segments, items, canvas bounds and the
   playing flag as they are; any other arrow key sets the head's direction
   and changes nothing else. *)
C7_NoReversal ==
    [][last'.op = "key" =>
          LET key == last'.key
              N == Len(segments)
              D == segments[N].direction
          IN /\ UNCHANGED <<items, playing, canvas_x_length, canvas_y_length>>
             /\ key = Opposite(D) => segments' = segments
             /\ key # Opposite(D) =>
                   segments' = [j \in 1..N |->
                                   IF j = N THEN Segment(segments[j].x, segments[j].y, key)
                                            ELSE segments[j]]]_vars

(* A key asking for the reverse of the head's direction has just been
   handled. *)
C7_Witness ==
    /\ last.op = "key"
    /\ last.key = Opposite(segments[Len(segments)].direction)

----------------------------------------------------------------------------
(* Properties of generate_item() *)

(* C8: item placement disjointness.  After a call of generate_item every item
   the call placed lies on a cell that no segment occupies and that no item
   placed before it occupies. *)
C8_PlacementDisjoint ==
    last.op = "generate" =>
        \A j \in (Len(last.pre.items) + 1)..Len(items) :
            /\ \A n \in 1..Len(segments) : Cell(segments[n]) # Cell(items[j])
            /\ \A i \in 1..(j - 1) : Cell(items[i]) # Cell(items[j])

(* C9: spawn schedule.  An iteration of the loop while playing calls
   generate_item exactly when the countdown is zero, and at every call but
   the first exactly SpawnPeriod update() calls have run since the call
   before. *)
C9_SpawnSchedule ==
    [][(playing /\ Len(queue') < Len(queue)) =>
          /\ (spawns' = spawns + 1) <=> (need_items_in = 0)
          /\ (spawns' = spawns + 1 /\ spawns >= 1) => since.ticks = SpawnPeriod]_vars

----------------------------------------------------------------------------
(* End to end *)

Shifted(n) == [i \in 1..InitialLength |-> Segment(i + n, 0, "Right")]

(* C10 as stated: after three update() calls from the new game, none of which
   found an item on the head's cell and with no key in between, the body is
   the initial one shifted right by 3. *)
C10_EndToEnd_Stated ==
    (updates = 3 /\ straight) => segments = Shifted(3)

(* C10: the same, for a canvas of width at least 16, so that the head, which
   starts at x = 13, makes its three steps below the bound. *)
C10_EndToEnd ==
    (updates = 3 /\ straight /\ canvas_x_length >= InitialLength + 3) =>
        segments = Shifted(3)

(* Three update() calls have run on a canvas of width at least 16, with no
   key and no item picked up. *)
C10_Witness ==
    /\ updates = 3
    /\ straight
    /\ canvas_x_length >= InitialLength + 3
    /\ Len(segments) = InitialLength

----------------------------------------------------------------------------
(* Properties of the wrap macros *)

(* The probed coordinate went down and then up. *)
DownUp == probe.ops = <<"decrement", "increment">>

(* The probed coordinate went up and then down. *)
UpDown == probe.ops = <<"increment", "decrement">>

(* C11 as stated: for a bound B > 0 and v in [0, B), both round trips
   (decrement then increment, increment then decrement) return v unless v is
   0 or B - 1, and at v = 0 and at v = B - 1 a round trip does not return v. *)
C11_WrapRoundTrip_Stated ==
    (DownUp \/ UpDown) =>
        LET B == probe.bound
            v == probe.start
            other == IF DownUp
                        THEN decrement_coordinate(increment_coordinate(v, B), B)
                        ELSE increment_coordinate(decrement_coordinate(v, B), B)
        IN /\ v \notin {0, B - 1} => probe.value = v
           /\ v \in {0, B - 1} => (probe.value # v \/ other # v)

(* C11: wrap round-trip.  For a bound B > 0 and v in [0, B), increment then
   decrement returns v for every v, and decrement then increment returns v
   exactly when v is not 0 (from 0 it ends at -1). *)
C11_WrapRoundTrip ==
    /\ UpDown => probe.value = probe.start
    /\ DownUp => /\ (probe.value = probe.start) <=> (probe.start # 0)
                 /\ probe.start = 0 => probe.value = -1

(* A coordinate at 0 has gone down and up and has come back as -1. *)
C11_Witness ==
    /\ DownUp
    /\ probe.bound > 1
    /\ probe.start = 0
    /\ probe.value = -1

(* C12: boundary never exceeded.  Once the canvas bounds are the terminal's,
   which strictly contain the initial body, every coordinate of every segment
   is at least 0 and below its axis' bound. *)
C12_BoundaryNeverExceeded ==
    (spawns >= 1 /\ canvas_x_length > InitialLength /\ canvas_y_length > 0) =>
        \A n \in 1..Len(segments) :
            /\ 0 <= segments[n].x /\ segments[n].x < canvas_x_length
            /\ 0 <= segments[n].y /\ segments[n].y < canvas_y_length

----------------------------------------------------------------------------
(* Further properties of update() *)

(* C13: self-collision keeps the bitten segment.  When update() finds no item
   on the head's post-move cell and k is the lowest 0-based index below the
   head whose post-move cell is the head's, only the segments of index below
   k are removed: the body left has length N - k and starts with the bitten
   segment. *)
C13_KeepsBitten ==
    Updated =>
        LET m == Moved
            N == Len(last.pre.segments)
            bitten == Bitten(m)
        IN (ItemHit(m) = 0 /\ bitten # {}) =>
              LET k == Lowest(bitten)
              IN /\ Len(segments) = N - k
                 /\ segments = [j \in 1..(N - k) |-> m[k + j]]

(* C14: move and propagate.  An update() that picks up no item and bites no
   segment leaves every segment on its pre-tick cell stepped once along its
   own pre-tick direction, gives every segment below the head the pre-tick
   direction of the next segment, and keeps the head's direction and the
   items: the result of moving all segments first and propagating the
   directions afterwards. *)
C14_MovePropagate ==
    (Updated /\ last.hit = "none") =>
        LET p == last.pre.segments
            N == Len(p)
            stepped == [i \in 1..N |->
                           StepForward(p[i].x, p[i].y, p[i].direction,
                                       canvas_x_length, canvas_y_length)]
        IN /\ segments = [i \in 1..N |->
                             Segment(stepped[i][1], stepped[i][2],
                                     IF i < N THEN p[i + 1].direction
                                              ELSE p[i].direction)]
           /\ items = last.pre.items

(* Such an update() has just run on a body with a bend below the head. *)
C14_Witness ==
    /\ Updated
    /\ last.hit = "none"
    /\ \E i \in 1..(Len(last.pre.segments) - 2) :
          last.pre.segments[i].direction # last.pre.segments[i + 1].direction

(* The indices (1-based) of the items update() was called with that lie on
   the cell the move loop took the head to. *)
OnHeadCell ==
    {j \in 1..Len(last.pre.items) :
        Cell(last.pre.items[j]) = Cell(Moved[Len(Moved)])}

(* C15: at most one effect per tick.  When items lie on the head's post-move
   cell, update() removes the first of them in insertion order and no other
   item (a Boulder is pushed again at the end), and the body has the length
   the item's effect gives it, whether or not the head's cell is also a
   segment's: one more for an Apple or a Mushroom, one less (if longer
   than 1) for a Hedgehog, the same for a Boulder. *)
C15_OneEffect ==
    (Updated /\ OnHeadCell # {}) =>
        LET its == last.pre.items
            i == Lowest(OnHeadCell)
            kind == its[i].item_type
            N == Len(last.pre.segments)
        IN /\ Len(items) \in {Len(its) - 1, Len(its)}
           /\ SubSeq(items, 1, Len(its) - 1) =
                  [j \in 1..(Len(its) - 1) |-> its[IF j < i THEN j ELSE j + 1]]
           /\ Len(items) = Len(its) =>
                  /\ kind = "Boulder"
                  /\ items[Len(its)].item_type = "Boulder"
           /\ Len(segments) =
                  CASE kind \in {"Apple", "Mushroom"} -> N + 1
                    [] kind = "Hedgehog" -> IF N > 1 THEN N - 1 ELSE N
                    [] kind = "Boulder" -> N

(* update() has just picked up an item on a cell that held a second item and
   that a segment below the head had moved to as well. *)
C15_Witness ==
    /\ Updated
    /\ last.hit \in ItemTypes
    /\ Cardinality(OnHeadCell) >= 2
    /\ Bitten(Moved) # {}

(* C16: Boulder deflection.  When the item update() picks up is a Boulder and
   the body has at least 2 segments, the head's new direction is
   perpendicular to the one it came with, the segment before the head takes
   that direction too, the head ends on its post-move cell stepped once along
   the new direction and once against the direction the segment before it
   had after the move loop, and no segment below the head changes cell. *)
C16_BoulderDeflection ==
    Updated =>
        LET m == Moved
            h == Len(m)
            cx == canvas_x_length
            cy == canvas_y_length
        IN (KindHit(m) = "Boulder" /\ h >= 2) =>
              LET D == last.pre.segments[h].direction
                  turned == segments[h].direction
                  along == StepForward(m[h].x, m[h].y, turned, cx, cy)
              IN /\ Len(segments) = h
                 /\ D \in {"Up", "Down"} => turned \in {"Left", "Right"}
                 /\ D \in {"Left", "Right"} => turned \in {"Up", "Down"}
                 /\ segments[h - 1].direction = turned
                 /\ Cell(segments[h]) =
                        StepBack(along[1], along[2], m[h - 1].direction, cx, cy)
                 /\ Cell(segments[h - 1]) = Cell(m[h - 1])
                 /\ \A j \in 1..(h - 2) : segments[j] = m[j]

(* A Boulder has just deflected the head of a body of at least 2 segments. *)
C16_Witness ==
    /\ Updated
    /\ last.hit = "Boulder"
    /\ Len(last.pre.segments) >= 2
    /\ status = "running"
    /\ segments[Len(segments)].direction
          # last.pre.segments[Len(segments)].direction

----------------------------------------------------------------------------
(* Further properties of generate_item() *)

(* C17: chained spawn kinds.  A call of generate_item keeps the items that
   were there, places at least one item, the first an Apple or a Mushroom and
   every further one a Hedgehog or a Boulder. *)
C17_ChainedKinds ==
    last.op = "generate" =>
        LET before == Len(last.pre.items)
        IN /\ Len(items) >= before + 1
           /\ SubSeq(items, 1, before) = last.pre.items
           /\ items[before + 1].item_type \in {"Apple", "Mushroom"}
           /\ \A j \in (before + 2)..Len(items) :
                  items[j].item_type \in {"Hedgehog", "Boulder"}

(* A call has just placed a chain of three items, a Hedgehog and a Boulder
   among them. *)
C17_Witness ==
    /\ last.op = "generate"
    /\ Len(items) = Len(last.pre.items) + 3
    /\ {items[j].item_type : j \in 2..Len(items)} = {"Hedgehog", "Boulder"}

----------------------------------------------------------------------------
(* Properties of the control loop *)

(* A 'q' is in the channel. *)
QuitQueued == \E i \in 1..Len(queue) : queue[i] = "q"

(* C18: menu gating.  While playing is false, handling a Tick or any key but
   'q' leaves the body, the items and the canvas bounds as they are, calls
   neither update() nor generate_item, and leaves the spawn countdown as it
   is. *)
C18_MenuGating ==
    [][(~playing /\ Receive /\ Head(queue) # "q") =>
          UNCHANGED <<segments, items, canvas_x_length, canvas_y_length,
                      need_items_in, updates, spawns>>]_vars

(* A Tick has just been handled in the menu. *)
C18_Witness ==
    /\ ~playing
    /\ status = "running"
    /\ last.op = "menu"
    /\ last.key = "Tick"

(* C19: quit terminates the loop.  Handling a 'q', in the menu or while
   playing, ends the loop without an update() and without a change of the
   body; once the loop has ended no event leaves the channel and the App
   stays as it is; while a 'q' is in the channel no key is sent after it; and
   a 'q' in the channel leads to the end of the loop. *)
C19_QuitTerminates ==
    /\ [][(Receive /\ Head(queue) = "q") =>
              /\ status' = "quit"
              /\ segments' = segments
              /\ updates' = updates]_vars
    /\ [][status = "quit" => UNCHANGED <<queue, segments, items, updates>>]_vars
    /\ [][(QuitQueued /\ Len(queue') > Len(queue)) =>
              queue'[Len(queue')] = "Tick"]_vars
    /\ (QuitQueued ~> status # "running")

(* The loop has ended on a 'q' while playing, with a later event still in the
   channel and the input thread gone. *)
C19_Witness ==
    /\ status = "quit"
    /\ playing
    /\ last.op = "quit"
    /\ queue # <<>>
    /\ ~input_alive

(* C20: no reversal across ticks.  When an update() follows another one that
   did not deflect the head on a Boulder, the direction its move loop takes
   the head in is not the opposite of the direction the head moved in during
   the update() before, whatever keys were handled in between. *)
C20_NoReversalAcrossTicks ==
    [][(last'.op = "update" /\ motion.heading # "none" /\ ~motion.deflected) =>
          segments[Len(segments)].direction # Opposite(motion.heading)]_vars

----------------------------------------------------------------------------
(* Properties of the body *)

(* C21: body contiguity.  Once the canvas bounds are the terminal's, which
   strictly contain the initial body, every segment below the head is one
   step (with wrap) along its own direction away from the next segment's
   cell. *)
C21_BodyContiguity ==
    (spawns >= 1 /\ canvas_x_length > InitialLength /\ canvas_y_length > 0) =>
        \A i \in 1..(Len(segments) - 1) :
            StepForward(segments[i].x, segments[i].y, segments[i].direction,
                        canvas_x_length, canvas_y_length)
               = Cell(segments[i + 1])

====
